---------------------------- MODULE Spec2Model ----------------------------
(***************************************************************************)
(* Research Radio: the orchestrator (src/src/main.py), the PDF matcher     *)
(* (src/src/drive_client.py), the Episode Store and feed publisher         *)
(* (src/src/feed_generator.py), the ProcessedSet (src/src/feed_parser.py)  *)
(* and the asset publisher (src/src/github_uploader.py).                   *)
(*                                                                         *)
(* Strings are sequences of one-character strings; the namespace prefix    *)
(* "bibtex:" of a paper id is a single symbol of such a sequence.          *)
(* Instants are whole hours; a day is 24 of them.                          *)
(***************************************************************************)
EXTENDS Integers, Sequences, FiniteSets, TLC

(***************************************************************************)
(* Text helpers: Python's str.lower, str.split, str.replace, `in`, and the *)
(* two regular expressions of _normalize_for_search.                       *)
(***************************************************************************)
Upper == {"A", "L", "Z", "P", "D", "F"}

Digits == {"0", "2", "4"}

Lower(c) ==
    CASE c = "A" -> "a"
      [] c = "L" -> "l"
      [] c = "Z" -> "z"
      [] c = "P" -> "p"
      [] c = "D" -> "d"
      [] c = "F" -> "f"
      [] OTHER -> c

LowerStr(s) == [i \in 1..Len(s) |-> Lower(s[i])]

IsSpace(c) == c = " "

\* \w of a Python 3 str pattern: letters, digits and the underscore
IsWord(c) == c \notin {" ", "-", ".", ":", "/", "bibtex:"}

\* re.sub(r'[^\w\s]', '', text): only word characters and whitespace are kept
RECURSIVE KeepWordAndSpace(_)
KeepWordAndSpace(s) ==
    IF s = <<>> THEN <<>>
    ELSE IF IsWord(Head(s)) \/ IsSpace(Head(s))
         THEN <<Head(s)>> \o KeepWordAndSpace(Tail(s))
         ELSE KeepWordAndSpace(Tail(s))

\* re.sub(r'\s+', ' ', text): every run of whitespace becomes one space
RECURSIVE CollapseSpaces(_)
CollapseSpaces(s) ==
    IF Len(s) < 2 THEN s
    ELSE IF IsSpace(s[1]) /\ IsSpace(s[2]) THEN CollapseSpaces(Tail(s))
         ELSE <<Head(s)>> \o CollapseSpaces(Tail(s))

RECURSIVE StripLeft(_)
StripLeft(s) ==
    IF s # <<>> /\ IsSpace(Head(s)) THEN StripLeft(Tail(s)) ELSE s

RECURSIVE StripRight(_)
StripRight(s) ==
    IF s # <<>> /\ IsSpace(s[Len(s)]) THEN StripRight(SubSeq(s, 1, Len(s) - 1)) ELSE s

Strip(s) == StripRight(StripLeft(s))

\* a in b for Python strings (the empty string is in every string)
IsSubstr(a, b) ==
    \E i \in 0..(Len(b) - Len(a)) : SubSeq(b, i + 1, i + Len(a)) = a

\* s.replace(pat, ''): non-overlapping occurrences, left to right
RECURSIVE RemoveAll(_, _)
RemoveAll(s, pat) ==
    IF Len(s) < Len(pat) \/ pat = <<>> THEN s
    ELSE IF SubSeq(s, 1, Len(pat)) = pat
         THEN RemoveAll(SubSeq(s, Len(pat) + 1, Len(s)), pat)
         ELSE <<Head(s)>> \o RemoveAll(Tail(s), pat)

\* s.split()[-1]: the last whitespace-separated word (<<>> when there is none)
RECURSIVE LastWordOf(_)
LastWordOf(s) ==
    LET t == StripRight(s) IN
    IF t = <<>> THEN <<>>
    ELSE IF \E i \in 1..Len(t) : IsSpace(t[i])
         THEN LastWordOf(Tail(t))
         ELSE t

\* re.search(r'(\d{4})', s): the first four consecutive digits, <<>> for no match
SearchYear(s) ==
    LET hits == {i \in 1..(Len(s) - 3) : \A k \in 0..3 : s[i + k] \in Digits} IN
    IF hits = {} THEN <<>>
    ELSE LET i == CHOOSE j \in hits : \A k \in hits : j <= k
         IN SubSeq(s, i, i + 3)

Normalize(text) ==
    Strip(CollapseSpaces(KeepWordAndSpace(LowerStr(text))))

DotPdf == <<".", "p", "d", "f">>


(***************************************************************************)
(* DriveClient: the expected file name and the two passes of find_pdf.     *)
(* A paper is [id, title, authors, date_published]; date_published <<>>    *)
(* is None.  A file of a listing is [name, modifiedTime]; modifiedTime     *)
(* <<>> is a resource that carries no such key.  find_pdf returns <<>>     *)
(* for None and <<file>> for a file.                                       *)
(***************************************************************************)
BuildSearchName(paper) ==
    LET parts == IF paper.authors # <<>> THEN LastWordOf(paper.authors[1]) ELSE <<>>
        first_author == IF parts # <<>> THEN parts ELSE <<"U", "n", "k", "n", "o", "w", "n">>
        y1 == IF paper.date_published # <<>> THEN SearchYear(paper.date_published) ELSE <<>>
        year == IF y1 # <<>> THEN y1 ELSE SearchYear(paper.id)
    IN IF year # <<>>
       THEN first_author \o <<" ">> \o year \o <<" ", "-", " ">> \o paper.title
       ELSE first_author \o <<" ", "-", " ">> \o paper.title

\* mutant: the first pass compares the names as they are
MutExactMatchCaseSensitive(paper, files) ==
    LET want == BuildSearchName(paper) \o DotPdf
        hits == {i \in 1..Len(files) : files[i].name = want}
    IN IF hits = {} THEN <<>>
       ELSE <<files[CHOOSE i \in hits : \A j \in hits : i <= j]>>

\* first pass: the first file whose lowercased name is <expected>.pdf
ExactMatch(paper, files) ==
    LET want == LowerStr(BuildSearchName(paper)) \o DotPdf
        hits == {i \in 1..Len(files) : LowerStr(files[i].name) = want}
    IN IF hits = {} THEN <<>>
       ELSE <<files[CHOOSE i \in hits : \A j \in hits : i <= j]>>

TitleScore == 50

AuthorScore == 30

YearScore == 20

MinScore == 50

Score(paper, file) ==
    LET file_normalized == Normalize(RemoveAll(file.name, DotPdf))
        title == IF IsSubstr(Normalize(paper.title), file_normalized) THEN TitleScore ELSE 0
        author == IF paper.authors # <<>>
                     /\ IsSubstr(LowerStr(LastWordOf(paper.authors[1])), file_normalized)
                  THEN AuthorScore ELSE 0
        ym == IF paper.date_published # <<>> THEN SearchYear(paper.date_published) ELSE <<>>
        year == IF ym # <<>> /\ IsSubstr(ym, file.name) THEN YearScore ELSE 0
    IN title + author + year

\* mutant: the loop replaces the best match on an equal score
RECURSIVE MutBestMatchLast(_, _, _, _)
MutBestMatchLast(paper, files, best, best_score) ==
    IF files = <<>> THEN [match |-> best, score |-> best_score]
    ELSE LET sc == Score(paper, Head(files)) IN
         IF sc >= best_score
         THEN MutBestMatchLast(paper, Tail(files), <<Head(files)>>, sc)
         ELSE MutBestMatchLast(paper, Tail(files), best, best_score)

\* second pass: the loop `if score > best_score`, from best_score = 0
RECURSIVE BestMatch(_, _, _, _)
BestMatch(paper, files, best, best_score) ==
    IF files = <<>> THEN [match |-> best, score |-> best_score]
    ELSE LET sc == Score(paper, Head(files)) IN
         IF sc > best_score
         THEN BestMatch(paper, Tail(files), <<Head(files)>>, sc)
         ELSE BestMatch(paper, Tail(files), best, best_score)

FuzzyAccepts(best_score) == best_score >= MinScore

FuzzyMatch(paper, files) ==
    LET b == BestMatch(paper, files, <<>>, 0) IN
    IF FuzzyAccepts(b.score) THEN b.match ELSE <<>>

FindPdf(paper, files) ==
    LET exact == ExactMatch(paper, files) IN
    IF exact # <<>> THEN exact ELSE FuzzyMatch(paper, files)


(***************************************************************************)
(* The inputs: three feed items and the PDF names of the drive folder.     *)
(* PaperA and PaperB share first-author surname and year; PaperC has no    *)
(* author, no date and an id without the namespace prefix.                 *)
(***************************************************************************)
Prefix == <<"bibtex:">>

Y2024 == <<"2", "0", "2", "4">>

PaperA ==
    [id |-> <<"bibtex:", "a">>, title |-> <<"A", "b">>,
     authors |-> << <<"A", " ", "L", "i">> >>, date_published |-> Y2024]

PaperB ==
    [id |-> <<"bibtex:", "b">>, title |-> <<"Z", "z">>,
     authors |-> << <<"L", "i">> >>, date_published |-> Y2024]

PaperC ==
    [id |-> <<"c">>, title |-> <<"D", "i">>,
     authors |-> <<>>, date_published |-> <<>>]

Papers == {PaperA, PaperB, PaperC}

PaperIds == {p.id : p \in Papers}

\* "Li 2024 - Ab.pdf": the expected name of PaperA
NameA == <<"L", "i", " ", "2", "0", "2", "4", " ", "-", " ", "A", "b">> \o DotPdf

\* "Zz.pdf": the title of PaperB alone
NameZ == <<"Z", "z">> \o DotPdf

\* "Di.pdf": the title of PaperC alone
NameD == <<"D", "i">> \o DotPdf

\* "Li 2024.pdf": surname and year of PaperA and PaperB, no title
NameL == <<"L", "i", " ", "2", "0", "2", "4">> \o DotPdf

FileNames == {NameA, NameZ, NameD, NameL}

MaxFiles == 2

MaxFeed == 3

\* sequences without repetition, of length at most n, over the set S
RECURSIVE SeqsUpTo(_, _)
SeqsUpTo(S, n) ==
    IF n = 0 THEN {<<>>}
    ELSE LET shorter == SeqsUpTo(S, n - 1) IN
         shorter \cup {Append(q, x) : q \in shorter, x \in S}

Distinct(q) == \A i, j \in 1..Len(q) : i # j => q[i] # q[j]

Feeds == {q \in SeqsUpTo(Papers, MaxFeed) : Distinct(q)}


(***************************************************************************)
(* Time.  A modifiedTime "YYYY-MM-DDThh..." is <<day, hour>> and the       *)
(* cutoff string "YYYY-MM-DD" is <<day>>: Python compares the two strings  *)
(* character by character, a proper prefix being the smaller.              *)
(***************************************************************************)
MIN_HOURS_BETWEEN_EPISODES == 24

HoursPerDay == 24

MaxAgeDays == 30

StartHour == 1000

CutoffStr(t) == <<(t - MaxAgeDays * HoursPerDay) \div HoursPerDay>>

RECURSIVE StrGE(_, _)
StrGE(a, b) ==
    IF b = <<>> THEN TRUE
    ELSE IF a = <<>> THEN FALSE
    ELSE IF Head(a) # Head(b) THEN Head(a) > Head(b)
    ELSE StrGE(Tail(a), Tail(b))

\* what a listing may say of a file: no modifiedTime, one before the window,
\* one inside it for every instant of the model
NoTime == <<>>

OldTime == <<CutoffStr(StartHour)[1] - 1, 5>>

RecentTime == <<CutoffStr(StartHour)[1] + 5, 5>>

\* modified is when the file was last modified on the drive; modifiedTime is
\* what the resource of the listing says of it
DriveFiles ==
    {[name |-> NameA, modifiedTime |-> RecentTime, modified |-> RecentTime],
     [name |-> NameA, modifiedTime |-> NoTime, modified |-> RecentTime],
     [name |-> NameD, modifiedTime |-> RecentTime, modified |-> RecentTime],
     [name |-> NameD, modifiedTime |-> OldTime, modified |-> OldTime]}

Listings == {q \in SeqsUpTo(DriveFiles, MaxFiles) : Distinct(q)}

(***************************************************************************)
(* DriveClient._list_folder_files: the remote listing on an empty cache,   *)
(* the values of the name-keyed cache otherwise.                           *)
(***************************************************************************)
\* d[f['name']] = f on an insertion-ordered dict
DictPut(d, f) ==
    IF \E i \in 1..Len(d) : d[i].name = f.name
    THEN [i \in 1..Len(d) |-> IF d[i].name = f.name THEN f ELSE d[i]]
    ELSE Append(d, f)

RECURSIVE DictByName(_, _)
DictByName(d, files) ==
    IF files = <<>> THEN d ELSE DictByName(DictPut(d, Head(files)), Tail(files))

ListFolderFiles(file_cache, remote) ==
    IF file_cache # <<>>
    THEN [files |-> file_cache, cache |-> file_cache]
    ELSE [files |-> remote, cache |-> DictByName(<<>>, remote)]

(***************************************************************************)
(* get_papers_from_drive: the loop over the feed, threading the cache of   *)
(* the DriveClient.  looked collects the ids find_pdf was called with.     *)
(***************************************************************************)
WithinWindow(pdf_info, t) == StrGE(pdf_info.modifiedTime, CutoffStr(t))

\* mutant: the dedup gate is skipped
MutNeverProcessed(paper, processed_ids) == FALSE

\* if paper.id in processed_ids: continue
AlreadyProcessed(paper, processed_ids) == paper.id \in processed_ids

RECURSIVE PapersLoop(_, _, _, _, _, _)
PapersLoop(all_papers, processed_ids, file_cache, remote, t, acc) ==
    IF all_papers = <<>> THEN [papers |-> acc.papers, cache |-> file_cache, looked |-> acc.looked]
    ELSE LET paper == Head(all_papers) IN
         IF AlreadyProcessed(paper, processed_ids)
         THEN PapersLoop(Tail(all_papers), processed_ids, file_cache, remote, t, acc)
         ELSE LET l == ListFolderFiles(file_cache, remote)
                  pdf_info == FindPdf(paper, l.files)
                  keep == pdf_info # <<>> /\ WithinWindow(pdf_info[1], t)
              IN PapersLoop(Tail(all_papers), processed_ids, l.cache, remote, t,
                            [papers |-> IF keep THEN Append(acc.papers, paper) ELSE acc.papers,
                             looked |-> acc.looked \cup {paper.id}])

GetPapersFromDriveResult(all_papers, processed_ids, remote, t) ==
    PapersLoop(all_papers, processed_ids, <<>>, remote, t, [papers |-> <<>>, looked |-> {}])


(***************************************************************************)
(* Episode Store, ProcessedSet and feed document.  An Episode is           *)
(* [id, pub_date, audio]: audio is the file name its audio_url ends with.  *)
(* The Episode Store is the list in episodes.json, the ProcessedSet the    *)
(* set load_processed_ids reads, the feed document the ids of the feed     *)
(* entries generate_podcast_feed adds, in the order it adds them.          *)
(***************************************************************************)
MaxNameLen == 100

Mp3 == <<".", "m", "p", "3">>

\* main.sanitize_filename
SanitizeFilename(paper_id) ==
    LET stripped == RemoveAll(paper_id, Prefix)
        name == [i \in 1..Len(stripped) |->
                    IF stripped[i] \in {"/", "\\"} THEN "_" ELSE stripped[i]]
    IN SubSeq(name, 1, IF Len(name) < MaxNameLen THEN Len(name) ELSE MaxNameLen)

AudioFilename(paper_id) == SanitizeFilename(paper_id) \o Mp3

\* create_episode_from_paper, with pub_date the instant of creation
CreateEpisode(paper, t) ==
    [id |-> paper.id, pub_date |-> t, audio |-> AudioFilename(paper.id)]

\* mutant: the Episode is appended without looking for its id
MutAddEpisodeAppends(eps, episode) == Append(eps, episode)

\* add_episode on the loaded list: replace every entry of that id, or append
AddEpisodeTo(eps, episode) ==
    IF \E i \in 1..Len(eps) : eps[i].id = episode.id
    THEN [i \in 1..Len(eps) |-> IF eps[i].id # episode.id THEN eps[i] ELSE episode]
    ELSE Append(eps, episode)

\* mutant: the file is overwritten with the new id alone
MutSaveOverwrites(ids, paper_id) == {paper_id}

\* save_processed_id on the loaded set
SaveProcessedIdTo(ids, paper_id) == ids \cup {paper_id}

\* mutant: the first Episode of the list is taken for the latest
MutLatestEpisodeFirst(eps, best) == best

\* max(episodes, key=lambda e: e.pub_date): the first of the latest
RECURSIVE LatestEpisode(_, _)
LatestEpisode(eps, best) ==
    IF eps = <<>> THEN best
    ELSE IF Head(eps).pub_date > best.pub_date
         THEN LatestEpisode(Tail(eps), Head(eps))
         ELSE LatestEpisode(Tail(eps), best)

\* mutant: the gate opens an hour early
MutEnoughHoursEarly(hours_since_last) == hours_since_last >= MIN_HOURS_BETWEEN_EPISODES - 1

\* mutant: exactly 24 hours is not enough
MutEnoughHoursStrict(hours_since_last) == hours_since_last > MIN_HOURS_BETWEEN_EPISODES

EnoughHours(hours_since_last) == hours_since_last >= MIN_HOURS_BETWEEN_EPISODES

\* can_publish_new_episode: the boolean, and the hours of its message
CanPublishNewEpisode(eps, t) ==
    IF eps = <<>>
    THEN [can |-> TRUE, empty |-> TRUE, since |-> 0, remaining |-> 0]
    ELSE LET latest_episode == LatestEpisode(Tail(eps), Head(eps))
             hours_since_last == t - latest_episode.pub_date
         IN IF EnoughHours(hours_since_last)
            THEN [can |-> TRUE, empty |-> FALSE, since |-> hours_since_last, remaining |-> 0]
            ELSE [can |-> FALSE, empty |-> FALSE, since |-> hours_since_last,
                  remaining |-> MIN_HOURS_BETWEEN_EPISODES - hours_since_last]

\* episodes.sort(key=pub_date, reverse=True): stable, newest first
RECURSIVE InsertByDate(_, _)
InsertByDate(sorted, e) ==
    IF sorted = <<>> THEN <<e>>
    ELSE IF Head(sorted).pub_date >= e.pub_date
         THEN <<Head(sorted)>> \o InsertByDate(Tail(sorted), e)
         ELSE <<e>> \o sorted

RECURSIVE SortNewestFirst(_, _)
SortNewestFirst(eps, acc) ==
    IF eps = <<>> THEN acc ELSE SortNewestFirst(Tail(eps), InsertByDate(acc, Head(eps)))

\* a feed that leaves out the oldest Episode
MutRenderFeedDropsOldest(eps) ==
    LET sorted == SortNewestFirst(eps, <<>>) IN [i \in 1..(Len(sorted) - 1) |-> sorted[i].id]

\* generate_podcast_feed: one entry per loaded Episode
RenderFeed(eps) ==
    LET sorted == SortNewestFirst(eps, <<>>) IN [i \in 1..Len(sorted) |-> sorted[i].id]


(***************************************************************************)
(* State.                                                                  *)
(*   episodes, processed, feedDoc, assets: episodes.json, processed.json,  *)
(*     feed.xml and the assets of the audio release                        *)
(*   now: the clock; feed, drive: what the feed URL and the drive folder   *)
(*     answer; config: the keys of config.py that are set                  *)
(*   pc: where the run of main() stands; file_cache, papers, cur,          *)
(*     remaining, successful, failed, gate: its locals; summary: the       *)
(*     counts it printed; fault: what made process_paper fail or main()    *)
(*     stop (a None or False of a stage, or the exception), "" for none    *)
(*   snap, looked, handed, stages: the stores at the start of the run, the *)
(*     ids find_pdf was called with, the ids handed to process_paper and   *)
(*     the stages entered, kept for the properties below                   *)
(*   ticks: how often the clock moved                                      *)
(*   found, call: the result of a direct call of find_pdf, and the last    *)
(*     direct call of a store function: its name, its argument and whether *)
(*     the store held that id before                                       *)
(*   val: what a run of the validator script came to                       *)
(*   names: a paper id and the audio file names derived from it            *)
(*   script: the attempt generate_script is at, what each call of the      *)
(*     model gave, and what generate_script came to                        *)
(*   trunc: the pages of an extracted text and what each truncation of    *)
(*     the program makes of them                                           *)
(*   lists: what each call of _list_folder_files on one DriveClient        *)
(*     returned, and whether it asked the drive                            *)
(*   race: two processes of main() running at once: where each stands,     *)
(*     its locals, what it read of each file, and who wrote each file last *)
(***************************************************************************)
VARIABLES episodes, processed, feedDoc, assets, now, feed, drive, config,
          pc, file_cache, papers, cur, remaining, successful, failed, gate, summary,
          fault, snap, looked, handed, stages, ticks, found, call, val, names, script,
          trunc, lists, race

stores == <<episodes, processed, feedDoc, assets>>

inputs == <<feed, drive, config>>

locals == <<file_cache, papers, cur, remaining, successful, failed, gate, summary, fault>>

ghosts == <<snap, looked, handed, stages>>

extra == <<trunc, lists, race>>

probe == <<found, call, val, names, script, extra>>

vars == <<episodes, processed, feedDoc, assets, now, feed, drive, config,
          pc, file_cache, papers, cur, remaining, successful, failed, gate, summary,
          fault, snap, looked, handed, stages, ticks, found, call, val, names, script,
          trunc, lists, race>>

NoPaper == [id |-> <<>>, title |-> <<>>, authors |-> <<>>, date_published |-> <<>>]

NoGate == [can |-> FALSE, empty |-> FALSE, since |-> -1, remaining |-> -1]

NoSummary == [processed |-> -1, failed |-> -1, queued |-> -1]

NoCall == [op |-> "", id |-> <<>>, pub_date |-> -1, had |-> FALSE]

Snapshot == [episodes |-> episodes, processed |-> processed,
             feedDoc |-> feedDoc, assets |-> assets]

MaxInitEpisodes == 1

MaxTicks == 1

\* the Episodes earlier runs left: one per id, each with its asset, the
\* last one published 25 or 23 hours before the first instant of the model
\* and each earlier one a day before the next
InitDates == {StartHour - 25, StartHour - 23}

InitStoreOf(q, d) ==
    [i \in 1..Len(q) |->
        CreateEpisode(q[i], d - (Len(q) - i) * MIN_HOURS_BETWEEN_EPISODES)]

InitStores ==
    {InitStoreOf(q, d) :
        q \in {r \in SeqsUpTo(Papers, MaxInitEpisodes) : Distinct(r)}, d \in InitDates}

NoVal == [mode |-> "none"]

NoNames == [id |-> <<>>]

NoTrunc == [pages |-> <<>>]

RaceRuns == {1, 2}

\* a process of main() before its first step
NoRun == [pc |-> "fetch", papers |-> <<>>, cur |-> NoPaper, can |-> FALSE,
          episodes |-> <<>>, processed_ids |-> {}, ok |-> FALSE]

NoRace == [run |-> [r \in RaceRuns |-> NoRun], last_episodes |-> 0, last_processed |-> 0]

NoScript == [attempt |-> 0, outcome |-> "", result |-> [shape |-> "None"], calls |-> <<>>]

\* the credentials and keys of config.py that have no default
Keys == {"GEMINI_API_KEY", "GOOGLE_APPLICATION_CREDENTIALS", "GITHUB_TOKEN", "GITHUB_REPO"}

\* the environment sets every key, or all but one
Configs == {Keys} \cup {Keys \ {k} : k \in Keys}

\* the two checks at the head of main()
ConfigValid(c) == "GEMINI_API_KEY" \in c /\ "GOOGLE_APPLICATION_CREDENTIALS" \in c

\* upload_audio_to_release finds a client and a repository name
CanReachRelease(c) == "GITHUB_TOKEN" \in c /\ "GITHUB_REPO" \in c

InitRun ==
    /\ file_cache = <<>>
    /\ papers = <<>>
    /\ cur = NoPaper
    /\ remaining = 0
    /\ successful = 0
    /\ failed = 0
    /\ gate = NoGate
    /\ summary = NoSummary
    /\ fault = ""
    /\ looked = {}
    /\ handed = <<>>
    /\ stages = {}
    /\ ticks = 0
    /\ found = <<>>
    /\ call = NoCall
    /\ val = NoVal
    /\ names = NoNames
    /\ script = NoScript
    /\ trunc = NoTrunc
    /\ lists = <<>>
    /\ race = NoRace

Init ==
    /\ now = StartHour
    /\ feed \in Feeds
    /\ drive \in Listings
    /\ config \in Configs
    /\ episodes \in InitStores
    /\ processed = {episodes[i].id : i \in 1..Len(episodes)}
    /\ assets = {episodes[i].audio : i \in 1..Len(episodes)}
    /\ feedDoc = RenderFeed(episodes)
    /\ snap = [episodes |-> episodes, processed |-> processed,
               feedDoc |-> feedDoc, assets |-> assets]
    /\ pc = "idle"
    /\ InitRun


(***************************************************************************)
(* main(): one action per step of a run.                                   *)
(***************************************************************************)
\* main() up to the construction of the clients
\* main() leaves with sys.exit(1) when the model key or the drive
\* credentials are not set
ConfigMissing ==
    /\ pc = "idle"
    /\ ~ConfigValid(config)
    /\ pc' = "exited"
    /\ file_cache' = <<>>
    /\ papers' = <<>>
    /\ cur' = NoPaper
    /\ remaining' = 0
    /\ successful' = 0
    /\ failed' = 0
    /\ gate' = NoGate
    /\ summary' = NoSummary
    /\ fault' = "SystemExit"
    /\ snap' = Snapshot
    /\ looked' = {}
    /\ handed' = <<>>
    /\ stages' = {}
    /\ UNCHANGED <<probe, stores, now, inputs, ticks>>

StartRun ==
    /\ pc = "idle"
    /\ ConfigValid(config)
    /\ pc' = "fetch"
    /\ file_cache' = <<>>
    /\ papers' = <<>>
    /\ cur' = NoPaper
    /\ remaining' = 0
    /\ successful' = 0
    /\ failed' = 0
    /\ gate' = NoGate
    /\ summary' = NoSummary
    /\ fault' = ""
    /\ snap' = Snapshot
    /\ looked' = {}
    /\ handed' = <<>>
    /\ stages' = {}
    /\ UNCHANGED <<probe, stores, now, inputs, ticks>>

\* fetch_feed raises (requests.get, raise_for_status): nothing in main() catches it
FetchFeedRaises ==
    /\ pc = "fetch"
    /\ pc' = "crashed"
    /\ fault' = "RequestException"
    /\ UNCHANGED <<probe, stores, now, inputs, file_cache, papers, cur, remaining, successful,
                   failed, gate, summary, ghosts, ticks>>

\* the files().list request of the first find_pdf raises
ListFolderRaises ==
    /\ pc = "fetch"
    /\ \E i \in 1..Len(feed) : feed[i].id \notin processed
    /\ pc' = "crashed"
    /\ fault' = "HttpError"
    /\ UNCHANGED <<probe, stores, now, inputs, file_cache, papers, cur, remaining, successful,
                   failed, gate, summary, ghosts, ticks>>

\* get_papers_from_drive returns; main() returns when the list is empty
GetPapersFromDrive ==
    /\ pc = "fetch"
    /\ LET r == GetPapersFromDriveResult(feed, processed, drive, now) IN
        /\ papers' = r.papers
        /\ file_cache' = r.cache
        /\ looked' = r.looked
        /\ pc' = IF r.papers = <<>> THEN "returned" ELSE "gate"
    /\ UNCHANGED <<probe, fault, stores, now, inputs, cur, remaining, successful, failed, gate,
                   summary, snap, handed, stages, ticks>>

\* the rate-limit gate refuses: main() returns
RateLimited ==
    /\ pc = "gate"
    /\ LET g == CanPublishNewEpisode(episodes, now) IN
        /\ ~g.can
        /\ gate' = g
    /\ pc' = "returned"
    /\ UNCHANGED <<probe, fault, stores, now, inputs, file_cache, papers, cur, remaining, successful,
                   failed, summary, ghosts, ticks>>

\* mutant: the last eligible paper instead of the first
MutPaperToProcessLast(ps) == ps[Len(ps)]

PaperToProcess(ps) == ps[1]

\* the gate allows: papers[0] is handed to process_paper
PassGate ==
    /\ pc = "gate"
    /\ LET g == CanPublishNewEpisode(episodes, now) IN
        /\ g.can
        /\ gate' = g
    /\ cur' = PaperToProcess(papers)
    /\ remaining' = Len(papers) - 1
    /\ successful' = 0
    /\ failed' = 0
    /\ handed' = Append(handed, PaperToProcess(papers).id)
    /\ pc' = "extract"
    /\ UNCHANGED <<probe, fault, stores, now, inputs, file_cache, papers, summary, snap, looked,
                   stages, ticks>>

\* what get_pdf_text finds for the paper in hand
PdfOfCur == FindPdf(cur, ListFolderFiles(file_cache, drive).files)

\* get_pdf_text returns None: no file, the download failed or no page gave text
ExtractFails ==
    /\ pc = "extract"
    /\ stages' = stages \cup {<<"extract", cur.id>>}
    /\ file_cache' = ListFolderFiles(file_cache, drive).cache
    /\ failed' = failed + 1
    /\ pc' = "regen"
    /\ fault' = "no_text"
    /\ UNCHANGED <<probe, stores, now, inputs, papers, cur, remaining, successful, gate,
                   summary, snap, looked, handed, ticks>>

\* get_pdf_text returns the text of the matching file
ExtractOk ==
    /\ pc = "extract"
    /\ PdfOfCur # <<>>
    /\ stages' = stages \cup {<<"extract", cur.id>>}
    /\ file_cache' = ListFolderFiles(file_cache, drive).cache
    /\ pc' = "podcast"
    /\ UNCHANGED <<probe, fault, stores, now, inputs, papers, cur, remaining, successful, failed, gate,
                   summary, snap, looked, handed, ticks>>

\* generate_podcast returns None (script or audio failed)
PodcastFails ==
    /\ pc = "podcast"
    /\ stages' = stages \cup {<<"podcast", cur.id>>}
    /\ failed' = failed + 1
    /\ pc' = "regen"
    /\ fault' = "no_podcast"
    /\ UNCHANGED <<probe, stores, now, inputs, file_cache, papers, cur, remaining, successful,
                   gate, summary, snap, looked, handed, ticks>>

\* generate_podcast returns output_path, a str: podcast_result.episode_title
\* raises AttributeError, which main() catches and counts as a failure
PodcastReturnsPath ==
    /\ pc = "podcast"
    /\ stages' = stages \cup {<<"podcast", cur.id>>}
    /\ failed' = failed + 1
    /\ pc' = "regen"
    /\ fault' = "AttributeError"
    /\ UNCHANGED <<probe, stores, now, inputs, file_cache, papers, cur, remaining, successful,
                   gate, summary, snap, looked, handed, ticks>>

\* generate_podcast_feed and the summary
GenerateFeed ==
    /\ pc = "regen"
    /\ feedDoc' = RenderFeed(episodes)
    /\ summary' = [processed |-> successful, failed |-> failed, queued |-> remaining]
    /\ pc' = "returned"
    /\ UNCHANGED <<probe, fault, episodes, processed, assets, now, inputs, file_cache, papers, cur,
                   remaining, successful, failed, gate, ghosts, ticks>>

\* the process ends
EndRun ==
    /\ pc \in {"returned", "crashed", "exited"}
    /\ pc' = "idle"
    /\ UNCHANGED <<probe, stores, now, inputs, locals, ghosts, ticks>>

\* time passes between two runs
Tick ==
    /\ pc = "idle"
    /\ ticks < MaxTicks
    /\ \E d \in {1, MIN_HOURS_BETWEEN_EPISODES} : now' = now + d
    /\ ticks' = ticks + 1
    /\ UNCHANGED <<probe, stores, inputs, pc, locals, ghosts>>

Next ==
    \/ ConfigMissing
    \/ StartRun
    \/ FetchFeedRaises
    \/ ListFolderRaises
    \/ GetPapersFromDrive
    \/ RateLimited
    \/ PassGate
    \/ ExtractFails
    \/ ExtractOk
    \/ PodcastFails
    \/ PodcastReturnsPath
    \/ GenerateFeed
    \/ EndRun
    \/ Tick

Spec == Init /\ [][Next]_vars


(***************************************************************************)
(* The rest of process_paper: upload, Episode, ProcessedSet.               *)
(* main.py reads episode_title and audio_path off the value                *)
(* generate_podcast returns.  PodcastReturnsResult is a generator that     *)
(* returns such a result; with it the steps after line 112 run.            *)
(***************************************************************************)
PodcastReturnsResult ==
    /\ pc = "podcast"
    /\ stages' = stages \cup {<<"podcast", cur.id>>}
    /\ pc' = "upload"
    /\ UNCHANGED <<probe, fault, stores, now, inputs, file_cache, papers, cur, remaining, successful,
                   failed, gate, summary, snap, looked, handed, ticks>>

\* upload_audio_to_release: the assets left when an asset of that name is deleted
AfterDelete(as, filename) == as \ {filename}

\* an upload that reports success and leaves no asset
MutUploadLeavesNothing(as, filename) == AfterDelete(as, filename)

\* ... and after release.upload_asset succeeded
AfterUpload(as, filename) == AfterDelete(as, filename) \cup {filename}

\* mutant: process_paper goes on to the Episode after a failed upload
MutAfterUploadFailureGoesOn == "add"

\* if not upload_success: return False, and main() goes on to the feed
AfterUploadFailure == "regen"

\* no token, no repository or no release: False before any asset is touched
UploadRefused ==
    /\ pc = "upload"
    /\ stages' = stages \cup {<<"upload", cur.id>>}
    /\ failed' = failed + 1
    /\ pc' = AfterUploadFailure
    /\ fault' = "upload_refused"
    /\ UNCHANGED <<probe, stores, now, inputs, file_cache, papers, cur, remaining, successful,
                   gate, summary, snap, looked, handed, ticks>>

\* upload_asset raises GithubException: False, the old asset already deleted
UploadFails ==
    /\ pc = "upload"
    /\ CanReachRelease(config)
    /\ stages' = stages \cup {<<"upload", cur.id>>}
    /\ assets' = AfterDelete(assets, AudioFilename(cur.id))
    /\ failed' = failed + 1
    /\ pc' = AfterUploadFailure
    /\ fault' = "upload_failed"
    /\ UNCHANGED <<probe, episodes, processed, feedDoc, now, inputs, file_cache, papers, cur,
                   remaining, successful, gate, summary, snap, looked, handed, ticks>>

\* upload_asset raises something else (a connection error): main() catches it
UploadRaises ==
    /\ pc = "upload"
    /\ "GITHUB_TOKEN" \in config
    /\ stages' = stages \cup {<<"upload", cur.id>>}
    /\ assets' = AfterDelete(assets, AudioFilename(cur.id))
    /\ failed' = failed + 1
    /\ fault' = "ConnectionError"
    /\ pc' = "regen"
    /\ UNCHANGED <<probe, episodes, processed, feedDoc, now, inputs, file_cache, papers, cur,
                   remaining, successful, gate, summary, snap, looked, handed, ticks>>

UploadOk ==
    /\ pc = "upload"
    /\ CanReachRelease(config)
    /\ stages' = stages \cup {<<"upload", cur.id>>}
    /\ assets' = AfterUpload(assets, AudioFilename(cur.id))
    /\ pc' = "add"
    /\ UNCHANGED <<probe, fault, episodes, processed, feedDoc, now, inputs, file_cache, papers, cur,
                   remaining, successful, failed, gate, summary, snap, looked, handed, ticks>>

\* create_episode_from_paper and add_episode
AddEpisode ==
    /\ pc = "add"
    /\ episodes' = AddEpisodeTo(episodes, CreateEpisode(cur, now))
    /\ pc' = "save"
    /\ UNCHANGED <<probe, fault, processed, feedDoc, assets, now, inputs, file_cache, papers, cur,
                   remaining, successful, failed, gate, summary, ghosts, ticks>>

\* save_episodes cannot open episodes.json: the file stays, main() catches OSError
AddEpisodeRaises ==
    /\ pc = "add"
    /\ failed' = failed + 1
    /\ fault' = "OSError"
    /\ pc' = "regen"
    /\ UNCHANGED <<probe, stores, now, inputs, file_cache, papers, cur, remaining, successful,
                   gate, summary, ghosts, ticks>>

\* save_processed_id, and process_paper returns True
SaveProcessedId ==
    /\ pc = "save"
    /\ processed' = SaveProcessedIdTo(processed, cur.id)
    /\ successful' = successful + 1
    /\ pc' = "regen"
    /\ UNCHANGED <<probe, fault, episodes, feedDoc, assets, now, inputs, file_cache, papers, cur,
                   remaining, failed, gate, summary, ghosts, ticks>>

\* save_processed_id cannot open processed.json: the file stays
SaveProcessedIdRaises ==
    /\ pc = "save"
    /\ failed' = failed + 1
    /\ fault' = "OSError"
    /\ pc' = "regen"
    /\ UNCHANGED <<probe, stores, now, inputs, file_cache, papers, cur, remaining, successful,
                   gate, summary, ghosts, ticks>>

NextPub ==
    \/ StartRun
    \/ FetchFeedRaises
    \/ ListFolderRaises
    \/ GetPapersFromDrive
    \/ RateLimited
    \/ PassGate
    \/ ExtractFails
    \/ ExtractOk
    \/ PodcastFails
    \/ PodcastReturnsResult
    \/ UploadRefused
    \/ UploadFails
    \/ UploadRaises
    \/ UploadOk
    \/ AddEpisode
    \/ AddEpisodeRaises
    \/ SaveProcessedId
    \/ SaveProcessedIdRaises
    \/ GenerateFeed
    \/ EndRun
    \/ Tick

\* every key of the configuration is set
InitPub == Init /\ config = Keys

SpecPub == InitPub /\ [][NextPub]_vars


(***************************************************************************)
(* can_publish_new_episode called on its own, on every Episode Store of    *)
(* at most MaxRateEpisodes Episodes published 0 to 49 hours ago, in any    *)
(* order.                                                                  *)
(***************************************************************************)
MaxRateEpisodes == 2

RateDates == {StartHour - 49, StartHour - 25, StartHour - 24, StartHour - 23, StartHour}

RateStores ==
    {q \in SeqsUpTo({CreateEpisode(p, d) : p \in Papers, d \in RateDates}, MaxRateEpisodes) :
        \A i, j \in 1..Len(q) : i # j => q[i].id # q[j].id}

InitRate ==
    /\ now = StartHour
    /\ config = Keys
    /\ feed = <<>>
    /\ drive = <<>>
    /\ episodes \in RateStores
    /\ processed = {episodes[i].id : i \in 1..Len(episodes)}
    /\ assets = {episodes[i].audio : i \in 1..Len(episodes)}
    /\ feedDoc = RenderFeed(episodes)
    /\ snap = [episodes |-> episodes, processed |-> processed,
               feedDoc |-> feedDoc, assets |-> assets]
    /\ pc = "rate"
    /\ InitRun

RateCheck ==
    /\ pc = "rate"
    /\ gate' = CanPublishNewEpisode(episodes, now)
    /\ pc' = "rated"
    /\ UNCHANGED <<probe, stores, now, inputs, file_cache, papers, cur, remaining,
                   successful, failed, summary, fault, ghosts, ticks>>

RateAgain ==
    /\ pc = "rated"
    /\ gate' = NoGate
    /\ pc' = "rate"
    /\ UNCHANGED <<probe, stores, now, inputs, file_cache, papers, cur, remaining,
                   successful, failed, summary, fault, ghosts, ticks>>

NextRate == RateCheck \/ RateAgain

SpecRate == InitRate /\ [][NextRate]_vars

(***************************************************************************)
(* add_episode and save_processed_id called on their own, in any order and *)
(* with any argument, from any Episode Store without duplicate ids and any *)
(* ProcessedSet.                                                           *)
(***************************************************************************)
StoreDates == {StartHour, StartHour + MIN_HOURS_BETWEEN_EPISODES}

StoreEpisodes == {CreateEpisode(p, d) : p \in Papers, d \in StoreDates}

InitStore ==
    /\ now = StartHour
    /\ config = Keys
    /\ feed = <<>>
    /\ drive = <<>>
    /\ episodes \in InitStores
    /\ processed \in SUBSET PaperIds
    /\ assets = {episodes[i].audio : i \in 1..Len(episodes)}
    /\ feedDoc = RenderFeed(episodes)
    /\ snap = [episodes |-> episodes, processed |-> processed,
               feedDoc |-> feedDoc, assets |-> assets]
    /\ pc = "store"
    /\ InitRun

AddEpisodeCall ==
    /\ pc = "store"
    /\ \E e \in StoreEpisodes :
        /\ episodes' = AddEpisodeTo(episodes, e)
        /\ call' = [op |-> "add_episode", id |-> e.id, pub_date |-> e.pub_date,
                    had |-> \E i \in 1..Len(episodes) : episodes[i].id = e.id]
    /\ UNCHANGED <<extra, found, val, names, script, processed, feedDoc, assets, now, inputs, pc, locals, ghosts, ticks>>

SaveProcessedIdCall ==
    /\ pc = "store"
    /\ \E id \in PaperIds :
        /\ processed' = SaveProcessedIdTo(processed, id)
        /\ call' = [op |-> "save_processed_id", id |-> id, pub_date |-> -1,
                    had |-> id \in processed]
    /\ UNCHANGED <<extra, found, val, names, script, episodes, feedDoc, assets, now, inputs, pc, locals, ghosts, ticks>>

NextStore == AddEpisodeCall \/ SaveProcessedIdCall

SpecStore == InitStore /\ [][NextStore]_vars

(***************************************************************************)
(* find_pdf called on its own: every paper against every listing of at     *)
(* most MaxMatchFiles of the file names, without repetition.               *)
(***************************************************************************)
MaxMatchFiles == 2

\* "li 2024 - ab.PDF": the expected name of PaperA in another case
NameALower ==
    <<"l", "i", " ", "2", "0", "2", "4", " ", "-", " ", "a", "b", ".", "P", "D", "F">>

\* "Ab Li 2024.pdf": title, surname and year of PaperA in another order
NameAB == <<"A", "b", " ", "L", "i", " ", "2", "0", "2", "4">> \o DotPdf

\* "li - Di.pdf": the expected name of PaperD in another case
NameDLower == <<"l", "i", " ", "-", " ", "D", "i">> \o DotPdf

\* "Di Li.pdf": title and surname of PaperD in another order
NameDL == <<"D", "i", " ", "L", "i">> \o DotPdf

MatchNames == FileNames \cup {NameALower, NameAB, NameDLower, NameDL}

\* a paper with an author and no year, neither in date_published nor in its id
PaperD ==
    [id |-> <<"bibtex:", "d">>, title |-> <<"D", "i">>,
     authors |-> << <<"L", "i">> >>, date_published |-> <<>>]

MatchPapers == Papers \cup {PaperD}

MatchFiles == {[name |-> n, modifiedTime |-> NoTime] : n \in MatchNames}

MatchListings == {q \in SeqsUpTo(MatchFiles, MaxMatchFiles) : Distinct(q)}

InitMatch ==
    /\ now = StartHour
    /\ config = Keys
    /\ feed = <<>>
    /\ drive \in MatchListings
    /\ episodes = <<>>
    /\ processed = {}
    /\ assets = {}
    /\ feedDoc = <<>>
    /\ snap = [episodes |-> <<>>, processed |-> {}, feedDoc |-> <<>>, assets |-> {}]
    /\ pc = "match"
    /\ InitRun

FindPdfCall ==
    /\ pc = "match"
    /\ \E p \in MatchPapers :
        /\ cur' = p
        /\ found' = FindPdf(p, drive)
    /\ pc' = "matched"
    /\ UNCHANGED <<extra, call, val, names, script, stores, now, inputs, file_cache, papers, remaining, successful,
                   failed, gate, summary, fault, ghosts, ticks>>

FindPdfAgain ==
    /\ pc = "matched"
    /\ pc' = "match"
    /\ found' = <<>>
    /\ cur' = NoPaper
    /\ UNCHANGED <<extra, call, val, names, script, stores, now, inputs, file_cache, papers, remaining, successful,
                   failed, gate, summary, fault, ghosts, ticks>>

NextMatch == FindPdfCall \/ FindPdfAgain

SpecMatch == InitMatch /\ [][NextMatch]_vars

(***************************************************************************)
(* scripts/validate_sync.py, run with no flag, --fix or --dry-run on any   *)
(* stores: the Episode Store of at most MaxInitEpisodes Episodes, any      *)
(* ProcessedSet, a feed document that is the rendering of the Episode      *)
(* Store or empty, and the assets of the Episodes, of none, or of PaperC.  *)
(***************************************************************************)
MaxValFeed == 2

MaxValFiles == 1

Modes == {"", "--fix", "--dry-run"}

\* get_mp3_files_from_releases: the asset names ending in .mp3, without it;
\* the empty mapping when the request fails
GetMp3Ids(release, api_ok) ==
    IF api_ok
    THEN {RemoveAll(n, Mp3) : n \in {a \in release : Len(a) >= Len(Mp3)
                                      /\ SubSeq(a, Len(a) - Len(Mp3) + 1, Len(a)) = Mp3}}
    ELSE {}

\* load_episodes of the validator: the keys of the mapping
EpisodeKeys(eps) == {RemoveAll(eps[i].id, Prefix) : i \in 1..Len(eps)}

\* load_processed of the validator
LoadProcessed(ids) == {RemoveAll(id, Prefix) : id \in ids}

\* count_feed_items: the <item> elements of feed.xml
CountFeedItems(doc) == Len(doc)

\* validate() and ValidationResult.has_issues
HasIssues(eps, ids, doc, release, api_ok) ==
    LET mp3_ids == GetMp3Ids(release, api_ok)
        episode_ids == EpisodeKeys(eps)
        proc == LoadProcessed(ids)
    IN \/ mp3_ids \ episode_ids # {}
       \/ episode_ids \ mp3_ids # {}
       \/ proc \ episode_ids # {}
       \/ episode_ids \ proc # {}
       \/ CountFeedItems(doc) # Cardinality(episode_ids)

\* step 3 of dry_run_pipeline: the items of the feed with an id that is not
\* in the processed set, prefixes removed
NewPapers(items, ids) ==
    SelectSeq(items, LAMBDA paper :
        /\ RemoveAll(paper.id, Prefix) # <<>>
        /\ RemoveAll(paper.id, Prefix) \notin LoadProcessed(ids))

\* load_episodes of the validator: a dict from the id without its prefix to
\* the Episode, a later Episode of a key taking the place of the earlier one
RECURSIVE ValLoadEpisodes(_, _)
ValLoadEpisodes(d, eps) ==
    IF eps = <<>> THEN d
    ELSE LET paper_id == RemoveAll(Head(eps).id, Prefix)
             entry == [key |-> paper_id, ep |-> Head(eps)]
         IN ValLoadEpisodes(IF \E i \in 1..Len(d) : d[i].key = paper_id
                            THEN [i \in 1..Len(d) |-> IF d[i].key = paper_id THEN entry ELSE d[i]]
                            ELSE Append(d, entry),
                            Tail(eps))

\* get_publication_queue_status on that dict
GetPublicationQueueStatus(dict, t) ==
    IF dict = <<>>
    THEN [can_publish |-> TRUE, hours_until_next |-> 0]
    ELSE LET latest_date == CHOOSE d \in {dict[i].ep.pub_date : i \in 1..Len(dict)} :
                                \A i \in 1..Len(dict) : dict[i].ep.pub_date <= d
             hours_since == t - latest_date
         IN IF hours_since >= MIN_HOURS_BETWEEN_EPISODES
            THEN [can_publish |-> TRUE, hours_until_next |-> 0]
            ELSE [can_publish |-> FALSE,
                  hours_until_next |-> MIN_HOURS_BETWEEN_EPISODES - hours_since]

\* get_publication_queue_status: can_publish
QueueCanPublish(eps, t) ==
    GetPublicationQueueStatus(ValLoadEpisodes(<<>>, eps), t).can_publish

\* mutant: main() of the validator always leaves with 0
MutExitZero(dry_run, has_issues) == 0

\* main() of the validator: sys.exit(1 if result.has_issues else 0) unless
\* --dry-run, which ends the process without an exit call
ExitCode(dry_run, has_issues) ==
    IF dry_run THEN 0 ELSE IF has_issues THEN 1 ELSE 0

\* mutant: --fix adds the ids of the Episodes to the ProcessedSet
MutFixRepairs(ids, eps) == ids \cup {eps[i].id : i \in 1..Len(eps)}

\* the --fix branch prints that it is not implemented
AfterFix(ids, eps) == ids

ValAssets(eps) ==
    {{eps[i].audio : i \in 1..Len(eps)}, {}, {AudioFilename(PaperC.id)}}

InitVal ==
    /\ now = StartHour
    /\ config = Keys
    /\ feed \in {q \in SeqsUpTo(Papers, MaxValFeed) : Distinct(q)}
    /\ drive \in {q \in SeqsUpTo(DriveFiles, MaxValFiles) : Distinct(q)}
    /\ episodes \in InitStores
    /\ processed \in SUBSET PaperIds
    /\ assets \in ValAssets(episodes)
    /\ feedDoc \in {RenderFeed(episodes), <<>>}
    /\ snap = [episodes |-> episodes, processed |-> processed,
               feedDoc |-> feedDoc, assets |-> assets]
    /\ pc = "val"
    /\ InitRun

\* python scripts/validate_sync.py [--fix]
Validate ==
    /\ pc = "val"
    /\ \E mode \in Modes \ {"--dry-run"}, api_ok \in BOOLEAN :
        LET has_issues == HasIssues(episodes, processed, feedDoc, assets, api_ok) IN
        /\ val' = [mode |-> mode, api_ok |-> api_ok, feed_ok |-> TRUE,
                   has_issues |-> has_issues,
                   exit |-> ExitCode(FALSE, has_issues),
                   new_papers |-> <<>>, will_process |-> FALSE]
        /\ processed' = IF mode = "--fix" /\ has_issues
                        THEN AfterFix(processed, episodes) ELSE processed
    /\ pc' = "validated"
    /\ UNCHANGED <<extra, found, call, names, script, episodes, feedDoc, assets, now, inputs, locals, ghosts, ticks>>

\* python scripts/validate_sync.py --dry-run
DryRunPipeline ==
    /\ pc = "val"
    /\ \E api_ok \in BOOLEAN, feed_ok \in BOOLEAN :
        LET has_issues == HasIssues(episodes, processed, feedDoc, assets, api_ok)
            new_papers == NewPapers(feed, processed)
        IN val' = [mode |-> "--dry-run", api_ok |-> api_ok, feed_ok |-> feed_ok,
                   has_issues |-> feed_ok /\ has_issues,
                   exit |-> ExitCode(TRUE, has_issues),
                   new_papers |-> IF feed_ok THEN new_papers ELSE <<>>,
                   will_process |-> /\ feed_ok
                                    /\ new_papers # <<>>
                                    /\ QueueCanPublish(episodes, now)]
    /\ pc' = "validated"
    /\ UNCHANGED <<extra, found, call, names, script, stores, now, inputs, locals, ghosts, ticks>>

ValidateAgain ==
    /\ pc = "validated"
    /\ pc' = "val"
    /\ val' = NoVal
    /\ UNCHANGED <<extra, found, call, names, script, stores, now, inputs, locals, ghosts, ticks>>

NextVal == Validate \/ DryRunPipeline \/ ValidateAgain

SpecVal == InitVal /\ [][NextVal]_vars

(***************************************************************************)
(* The audio file name of a paper id, as process_paper derives it and as   *)
(* generate_audio_from_script_json derives it, for every id of at most     *)
(* MaxIdLen symbols.                                                       *)
(***************************************************************************)
MaxIdLen == 3

IdSymbols == {"bibtex:", "a", "/", ".", "_"}

Ids == SeqsUpTo(IdSymbols, MaxIdLen) \ {<<>>}

\* c.isalnum() or c in '-_'
IsSafeChar(c) == c \notin {" ", ".", ":", "/", "\\"}

\* the characters of one symbol of an id
CharsOf(c) == IF c = "bibtex:" THEN <<"b", "i", "b", "t", "e", "x", ":">> ELSE <<c>>

RECURSIVE Chars(_)
Chars(id) == IF id = <<>> THEN <<>> ELSE CharsOf(Head(id)) \o Chars(Tail(id))

\* audio_generator.generate_audio_from_script_json: every character that is
\* not alphanumeric, '-' or '_' becomes '_', then the first 100 are kept
SafeId(paper_id) ==
    LET cs == Chars(paper_id)
        safe_id == [i \in 1..Len(cs) |-> IF IsSafeChar(cs[i]) THEN cs[i] ELSE "_"]
    IN SubSeq(safe_id, 1, IF Len(safe_id) < MaxNameLen THEN Len(safe_id) ELSE MaxNameLen)

GeneratorAudioFilename(paper_id) == SafeId(paper_id) \o Mp3

InitName ==
    /\ now = StartHour
    /\ config = Keys
    /\ feed = <<>>
    /\ drive = <<>>
    /\ episodes = <<>>
    /\ processed = {}
    /\ assets = {}
    /\ feedDoc = <<>>
    /\ snap = [episodes |-> <<>>, processed |-> {}, feedDoc |-> <<>>, assets |-> {}]
    /\ pc = "name"
    /\ InitRun

DeriveNames ==
    /\ pc = "name"
    /\ \E id \in Ids :
        names' = [id |-> id,
                  main |-> AudioFilename(id),
                  audio_generator |-> GeneratorAudioFilename(id)]
    /\ pc' = "named"
    /\ UNCHANGED <<extra, found, call, val, script, stores, now, inputs, locals, ghosts, ticks>>

DeriveAgain ==
    /\ pc = "named"
    /\ pc' = "name"
    /\ UNCHANGED <<probe, stores, now, inputs, locals, ghosts, ticks>>

NextName == DeriveNames \/ DeriveAgain

SpecName == InitName /\ [][NextName]_vars

(***************************************************************************)
(* script_generator.generate_script: up to max_retries calls of the model. *)
(* What json.loads makes of an answer is a list, a mapping without         *)
(* "multiSpeakerMarkup", the empty mapping, or a script of at most         *)
(* MaxTurns turns; an answer may also be no JSON at all, and the call may  *)
(* raise.                                                                  *)
(***************************************************************************)
MaxTurns == 4

max_retries == 3

MinTurns == 4

Turns ==
    {[text |-> "hi", speaker |-> "R"], [text |-> "hi", speaker |-> "S"],
     [text |-> "", speaker |-> "S"], [text |-> "hi", speaker |-> "X"],
     [speaker |-> "R"]}

\* sequences, of length at most n, over the set S
RECURSIVE AllSeqsUpTo(_, _)
AllSeqsUpTo(S, n) ==
    IF n = 0 THEN {<<>>}
    ELSE LET shorter == AllSeqsUpTo(S, n - 1) IN
         shorter \cup {Append(q, x) : q \in shorter, x \in S}

Parsed ==
    {[shape |-> "list"], [shape |-> "mapping"], [shape |-> "empty"]}
        \cup {[shape |-> "script", turns |-> t] : t \in AllSeqsUpTo(Turns, MaxTurns)}

\* parse_script_response gives None for an answer that holds no JSON
Answers == Parsed \cup {[shape |-> "None"]}

\* `if script:` on what parse_script_response returned
Truthy(parsed) == parsed.shape \notin {"None", "empty"}

\* validate_script; generate_script does not call it
ValidateScript(parsed) ==
    /\ parsed.shape = "script"
    /\ Len(parsed.turns) >= MinTurns
    /\ \A i \in 1..Len(parsed.turns) :
          /\ "text" \in DOMAIN parsed.turns[i]
          /\ "speaker" \in DOMAIN parsed.turns[i]
          /\ parsed.turns[i].speaker \in {"R", "S"}

InitScript ==
    /\ now = StartHour
    /\ config = Keys
    /\ feed = <<>>
    /\ drive = <<>>
    /\ episodes = <<>>
    /\ processed = {}
    /\ assets = {}
    /\ feedDoc = <<>>
    /\ snap = [episodes |-> <<>>, processed |-> {}, feedDoc |-> <<>>, assets |-> {}]
    /\ pc = "script"
    /\ InitRun

\* mutant: the loop makes one pass more
MutExhaustedLate(attempt) == attempt >= max_retries

\* the pass of index attempt is the last of range(max_retries)
Exhausted(attempt) == attempt >= max_retries - 1

\* one pass of the loop: the model answers and the answer is parsed
GenerateScriptAttempt ==
    /\ pc = "script"
    /\ \E answer \in Answers :
        LET calls == Append(script.calls, answer.shape) IN
        IF Truthy(answer)
        THEN /\ script' = [attempt |-> script.attempt, outcome |-> "returned",
                           result |-> answer, calls |-> calls]
             /\ pc' = "scripted"
        ELSE IF ~Exhausted(script.attempt)
        THEN /\ script' = [script EXCEPT !.attempt = @ + 1, !.calls = calls]
             /\ pc' = pc
        ELSE /\ script' = [attempt |-> script.attempt, outcome |-> "returned",
                           result |-> [shape |-> "None"], calls |-> calls]
             /\ pc' = "scripted"
    /\ UNCHANGED <<extra, found, call, val, names, stores, now, inputs, locals, ghosts, ticks>>

\* one pass of the loop: generate_content raises
GenerateScriptRaises ==
    /\ pc = "script"
    /\ LET calls == Append(script.calls, "raised") IN
       IF Exhausted(script.attempt)
       THEN /\ script' = [attempt |-> script.attempt, outcome |-> "raised",
                          result |-> [shape |-> "None"], calls |-> calls]
            /\ pc' = "scripted"
       ELSE /\ script' = [script EXCEPT !.attempt = @ + 1, !.calls = calls]
            /\ pc' = pc
    /\ UNCHANGED <<extra, found, call, val, names, stores, now, inputs, locals, ghosts, ticks>>

GenerateScriptAgain ==
    /\ pc = "scripted"
    /\ pc' = "script"
    /\ script' = NoScript
    /\ UNCHANGED <<extra, found, call, val, names, stores, now, inputs, locals, ghosts, ticks>>

NextScript == GenerateScriptAttempt \/ GenerateScriptRaises \/ GenerateScriptAgain

SpecScript == InitScript /\ [][NextScript]_vars

\* a call of the model answers or raises, and the loop goes on
SpecScriptFair ==
    SpecScript /\ WF_vars(GenerateScriptAttempt \/ GenerateScriptRaises)

(***************************************************************************)
(* Truncation of extracted text: pdf_extractor.truncate_text and the       *)
(* truncation inside DriveClient.get_pdf_text, the one process_paper       *)
(* reaches. An extracted text is the texts of its pages joined by a blank  *)
(* line; a page is a run of letters. The budget of get_pdf_text, 80000, is *)
(* scaled to MaxChars, and 80% of it is an exact product in the code's     *)
(* floating point for both.                                                *)
(***************************************************************************)
MaxChars == 20

MaxPage == 20

NewLine == "\n"

ParaBreak == <<NewLine, NewLine>>

ContentMarker == ParaBreak \o <<"[Content truncated due to length...]">>

TextMarker == ParaBreak \o <<"[Text truncated...]">>

PageText(n) == [i \in 1..n |-> "x"]

RECURSIVE JoinPages(_)
JoinPages(text_parts) ==
    IF text_parts = <<>> THEN <<>>
    ELSE IF Len(text_parts) = 1 THEN PageText(text_parts[1])
    ELSE PageText(text_parts[1]) \o ParaBreak \o JoinPages(Tail(text_parts))

\* str.rfind: the 0-based index of the last occurrence, -1 when there is none
RFind(s, pat) ==
    LET at == {i \in 0..(Len(s) - Len(pat)) : SubSeq(s, i + 1, i + Len(pat)) = pat}
    IN IF at = {} THEN -1 ELSE CHOOSE i \in at : \A j \in at : j <= i

TruncateText(text, max_chars) ==
    IF Len(text) <= max_chars THEN text
    ELSE LET truncated == SubSeq(text, 1, max_chars)
             last_para == RFind(truncated, ParaBreak)
         IN (IF 5 * last_para > 4 * max_chars
             THEN SubSeq(truncated, 1, last_para)
             ELSE truncated) \o ContentMarker

IsWhitespace(c) == c \in {" ", NewLine}

\* re.sub(r'\s+', ' ', s): every run of whitespace becomes one space
RECURSIVE CollapseWhitespace(_)
CollapseWhitespace(s) ==
    IF s = <<>> THEN <<>>
    ELSE IF IsWhitespace(Head(s))
         THEN IF Len(s) > 1 /\ IsWhitespace(s[2])
              THEN CollapseWhitespace(Tail(s))
              ELSE <<" ">> \o CollapseWhitespace(Tail(s))
         ELSE <<Head(s)>> \o CollapseWhitespace(Tail(s))

\* the second substitution of get_pdf_text finds no newline left to replace
GetPdfTextTruncate(full_text, max_chars) ==
    LET cleaned == CollapseWhitespace(full_text)
        cut == IF Len(cleaned) > max_chars
               THEN SubSeq(cleaned, 1, max_chars) \o TextMarker
               ELSE cleaned
    IN Strip(cut)

PageLists == AllSeqsUpTo(1..MaxPage, 2) \cup AllSeqsUpTo({1, MaxChars - 3}, 3)

InitTrunc ==
    /\ now = StartHour
    /\ config = Keys
    /\ feed = <<>>
    /\ drive = <<>>
    /\ episodes = <<>>
    /\ processed = {}
    /\ assets = {}
    /\ feedDoc = <<>>
    /\ snap = [episodes |-> <<>>, processed |-> {}, feedDoc |-> <<>>, assets |-> {}]
    /\ pc = "extract"
    /\ InitRun

TruncateCall ==
    /\ pc = "extract"
    /\ \E text_parts \in PageLists \ {<<>>} :
        trunc' = [pages |-> text_parts,
                  max_chars |-> MaxChars,
                  truncate_text |-> TruncateText(JoinPages(text_parts), MaxChars),
                  get_pdf_text |-> GetPdfTextTruncate(JoinPages(text_parts), MaxChars)]
    /\ pc' = "extracted"
    /\ UNCHANGED <<lists, race, found, call, val, names, script, stores, now, inputs, locals, ghosts, ticks>>

TruncateAgain ==
    /\ pc = "extracted"
    /\ pc' = "extract"
    /\ UNCHANGED <<probe, stores, now, inputs, locals, ghosts, ticks>>

NextTrunc == TruncateCall \/ TruncateAgain

SpecTrunc == InitTrunc /\ [][NextTrunc]_vars

(***************************************************************************)
(* DriveClient._list_folder_files called several times on one DriveClient, *)
(* the folder holding any files, none or two of one name among them.       *)
(***************************************************************************)
MaxListFiles == 3

MaxListCalls == 3

ListFolders == {q \in SeqsUpTo(DriveFiles, MaxListFiles) : Distinct(q)}

InitList ==
    /\ now = StartHour
    /\ config = Keys
    /\ feed = <<>>
    /\ drive \in ListFolders
    /\ episodes = <<>>
    /\ processed = {}
    /\ assets = {}
    /\ feedDoc = <<>>
    /\ snap = [episodes |-> <<>>, processed |-> {}, feedDoc |-> <<>>, assets |-> {}]
    /\ pc = "list"
    /\ InitRun

ListFolderCall ==
    /\ pc = "list"
    /\ Len(lists) < MaxListCalls
    /\ LET r == ListFolderFiles(file_cache, drive) IN
        /\ file_cache' = r.cache
        /\ lists' = Append(lists, [files |-> r.files, requested |-> file_cache = <<>>])
    /\ UNCHANGED <<trunc, race, found, call, val, names, script, stores, now, inputs, pc, papers, cur,
                   remaining, successful, failed, gate, summary, fault, ghosts, ticks>>

\* a new DriveClient
ListAgain ==
    /\ pc = "list"
    /\ Len(lists) = MaxListCalls
    /\ file_cache' = <<>>
    /\ lists' = <<>>
    /\ UNCHANGED <<trunc, race, found, call, val, names, script, stores, now, inputs, pc, papers, cur,
                   remaining, successful, failed, gate, summary, fault, ghosts, ticks>>

NextList == ListFolderCall \/ ListAgain

SpecList == InitList /\ [][NextList]_vars

(***************************************************************************)
(* The rate limit as the orchestrator and as the validator compute it, on  *)
(* one Episode Store at one instant. The store may hold the Episodes of    *)
(* two papers whose ids differ by the "bibtex:" prefix alone.              *)
(***************************************************************************)
PaperE ==
    [id |-> <<"a">>, title |-> <<"A", "b">>,
     authors |-> << <<"A", " ", "L", "i">> >>, date_published |-> Y2024]

QueueStores ==
    {q \in SeqsUpTo({CreateEpisode(p, d) : p \in Papers \cup {PaperE}, d \in RateDates},
                    MaxRateEpisodes) :
        \A i, j \in 1..Len(q) : i # j => q[i].id # q[j].id}

InitQueue ==
    /\ now = StartHour
    /\ config = Keys
    /\ feed = <<>>
    /\ drive = <<>>
    /\ episodes \in QueueStores
    /\ processed = {episodes[i].id : i \in 1..Len(episodes)}
    /\ assets = {episodes[i].audio : i \in 1..Len(episodes)}
    /\ feedDoc = RenderFeed(episodes)
    /\ snap = [episodes |-> episodes, processed |-> processed,
               feedDoc |-> feedDoc, assets |-> assets]
    /\ pc = "queue"
    /\ InitRun

QueueCheck ==
    /\ pc = "queue"
    /\ gate' = CanPublishNewEpisode(episodes, now)
    /\ val' = [mode |-> "queue",
               queue |-> GetPublicationQueueStatus(ValLoadEpisodes(<<>>, episodes), now)]
    /\ pc' = "queued"
    /\ UNCHANGED <<extra, found, call, names, script, stores, now, inputs, file_cache, papers,
                   cur, remaining, successful, failed, summary, fault, ghosts, ticks>>

QueueAgain ==
    /\ pc = "queued"
    /\ gate' = NoGate
    /\ val' = NoVal
    /\ pc' = "queue"
    /\ UNCHANGED <<extra, found, call, names, script, stores, now, inputs, file_cache, papers,
                   cur, remaining, successful, failed, summary, fault, ghosts, ticks>>

NextQueue == QueueCheck \/ QueueAgain

SpecQueue == InitQueue /\ [][NextQueue]_vars

(***************************************************************************)
(* Two processes of main() started together on the same files. Each step   *)
(* of a process is one read or one write of a file or of the release:      *)
(* add_episode loads episodes.json and then writes it, save_processed_id   *)
(* loads processed.json and then writes it, and a step of the other        *)
(* process may fall between the two. The feed URL and the drive folder     *)
(* answer each process on their own. generate_podcast returns its result.  *)
(***************************************************************************)
\* a save that reads the file again before it writes
MutSaveEpisodesMerges(loaded, current, episode) == AddEpisodeTo(current, episode)

\* add_episode: save_episodes writes the list add_episode loaded
SaveEpisodesOver(loaded, current, episode) == AddEpisodeTo(loaded, episode)

\* save_processed_id: the set it loaded, with the id
SaveProcessedOver(loaded, current, paper_id) == SaveProcessedIdTo(loaded, paper_id)

RaceSet(r, rec) == [race EXCEPT !.run[r] = rec]

InitRace ==
    /\ now = StartHour
    /\ config = Keys
    /\ feed = <<>>
    /\ drive = <<>>
    /\ episodes \in InitStores
    /\ processed = {episodes[i].id : i \in 1..Len(episodes)}
    /\ assets = {episodes[i].audio : i \in 1..Len(episodes)}
    /\ feedDoc = RenderFeed(episodes)
    /\ snap = [episodes |-> episodes, processed |-> processed,
               feedDoc |-> feedDoc, assets |-> assets]
    /\ pc = "race"
    /\ InitRun

\* fetch_papers and get_papers_from_drive of one process
RaceFetch(r) ==
    /\ race.run[r].pc = "fetch"
    /\ \E f \in Feeds, d \in Listings :
        LET res == GetPapersFromDriveResult(f, processed, d, now) IN
        race' = RaceSet(r, [race.run[r] EXCEPT
                              !.papers = res.papers,
                              !.pc = IF res.papers = <<>> THEN "returned" ELSE "gate"])
    /\ UNCHANGED <<trunc, lists, found, call, val, names, script, stores, now, inputs, pc,
                   locals, ghosts, ticks>>

\* can_publish_new_episode of one process, and papers[0]
RaceGate(r) ==
    /\ race.run[r].pc = "gate"
    /\ LET g == CanPublishNewEpisode(episodes, now) IN
        race' = RaceSet(r, [race.run[r] EXCEPT
                              !.can = g.can,
                              !.cur = IF g.can THEN PaperToProcess(race.run[r].papers)
                                      ELSE NoPaper,
                              !.pc = IF g.can THEN "upload" ELSE "returned"])
    /\ UNCHANGED <<trunc, lists, found, call, val, names, script, stores, now, inputs, pc,
                   locals, ghosts, ticks>>

\* the text, the podcast and the upload of the audio
RaceUpload(r) ==
    /\ race.run[r].pc = "upload"
    /\ assets' = AfterUpload(assets, AudioFilename(race.run[r].cur.id))
    /\ race' = RaceSet(r, [race.run[r] EXCEPT !.pc = "load_episodes"])
    /\ UNCHANGED <<trunc, lists, found, call, val, names, script, episodes, processed, feedDoc,
                   now, inputs, pc, locals, ghosts, ticks>>

\* one of the three stages fails: process_paper returns False
RaceStageFails(r) ==
    /\ race.run[r].pc = "upload"
    /\ race' = RaceSet(r, [race.run[r] EXCEPT !.pc = "regen"])
    /\ UNCHANGED <<trunc, lists, found, call, val, names, script, stores, now, inputs, pc,
                   locals, ghosts, ticks>>

\* add_episode: episodes = load_episodes()
RaceLoadEpisodes(r) ==
    /\ race.run[r].pc = "load_episodes"
    /\ race' = RaceSet(r, [race.run[r] EXCEPT !.episodes = episodes, !.pc = "save_episodes"])
    /\ UNCHANGED <<trunc, lists, found, call, val, names, script, stores, now, inputs, pc,
                   locals, ghosts, ticks>>

\* add_episode: save_episodes(episodes)
RaceSaveEpisodes(r) ==
    /\ race.run[r].pc = "save_episodes"
    /\ episodes' = SaveEpisodesOver(race.run[r].episodes, episodes,
                                    CreateEpisode(race.run[r].cur, now))
    /\ race' = [RaceSet(r, [race.run[r] EXCEPT !.pc = "load_processed"])
                  EXCEPT !.last_episodes = r]
    /\ UNCHANGED <<trunc, lists, found, call, val, names, script, processed, feedDoc, assets,
                   now, inputs, pc, locals, ghosts, ticks>>

\* save_processed_id: processed = load_processed_ids(filepath)
RaceLoadProcessed(r) ==
    /\ race.run[r].pc = "load_processed"
    /\ race' = RaceSet(r, [race.run[r] EXCEPT !.processed_ids = processed,
                                               !.pc = "save_processed"])
    /\ UNCHANGED <<trunc, lists, found, call, val, names, script, stores, now, inputs, pc,
                   locals, ghosts, ticks>>

\* save_processed_id: the file is written, and process_paper returns True
RaceSaveProcessed(r) ==
    /\ race.run[r].pc = "save_processed"
    /\ processed' = SaveProcessedOver(race.run[r].processed_ids, processed,
                                      race.run[r].cur.id)
    /\ race' = [RaceSet(r, [race.run[r] EXCEPT !.ok = TRUE, !.pc = "regen"])
                  EXCEPT !.last_processed = r]
    /\ UNCHANGED <<trunc, lists, found, call, val, names, script, episodes, feedDoc, assets,
                   now, inputs, pc, locals, ghosts, ticks>>

\* generate_podcast_feed of one process
RaceGenerateFeed(r) ==
    /\ race.run[r].pc = "regen"
    /\ feedDoc' = RenderFeed(episodes)
    /\ race' = RaceSet(r, [race.run[r] EXCEPT !.pc = "returned"])
    /\ UNCHANGED <<trunc, lists, found, call, val, names, script, episodes, processed, assets,
                   now, inputs, pc, locals, ghosts, ticks>>

NextRace ==
    \E r \in RaceRuns :
        \/ RaceFetch(r)
        \/ RaceGate(r)
        \/ RaceUpload(r)
        \/ RaceStageFails(r)
        \/ RaceLoadEpisodes(r)
        \/ RaceSaveEpisodes(r)
        \/ RaceLoadProcessed(r)
        \/ RaceSaveProcessed(r)
        \/ RaceGenerateFeed(r)

SpecRace == InitRace /\ [][NextRace]_vars

(***************************************************************************)
(* Runs of main() that start with nothing published: no Episode, no        *)
(* processed id, no asset, an empty feed document. The feed holds PaperA   *)
(* and PaperE, whose ids differ by the "bibtex:" prefix alone.             *)
(* generate_podcast returns its result.                                    *)
(***************************************************************************)
FreshFeeds == {q \in SeqsUpTo({PaperA, PaperE}, MaxFeed) : Distinct(q)}

InitFresh ==
    /\ now = StartHour
    /\ feed \in FreshFeeds
    /\ drive \in Listings
    /\ config = Keys
    /\ episodes = <<>>
    /\ processed = {}
    /\ assets = {}
    /\ feedDoc = RenderFeed(episodes)
    /\ snap = [episodes |-> episodes, processed |-> processed,
               feedDoc |-> feedDoc, assets |-> assets]
    /\ pc = "idle"
    /\ InitRun

SpecFresh == InitFresh /\ [][NextPub]_vars

(***************************************************************************)
(* upload_audio_to_release called on its own, on a release that holds the  *)
(* assets of the Episodes and others. call records the file name, whether  *)
(* the release held an asset of that name, what the call returned and why; *)
(* snap holds the stores before the call.                                  *)
(***************************************************************************)
AudioNames == {AudioFilename(p.id) : p \in Papers}

InitUpload ==
    /\ now = StartHour
    /\ config = Keys
    /\ feed = <<>>
    /\ drive = <<>>
    /\ episodes \in InitStores
    /\ processed = {episodes[i].id : i \in 1..Len(episodes)}
    /\ assets = {episodes[i].audio : i \in 1..Len(episodes)}
    /\ feedDoc = RenderFeed(episodes)
    /\ snap = [episodes |-> episodes, processed |-> processed,
               feedDoc |-> feedDoc, assets |-> assets]
    /\ pc = "upload_call"
    /\ InitRun

UploadCallReturns(filename, as, returned, why) ==
    /\ call' = [op |-> "upload", id |-> filename, pub_date |-> -1,
                had |-> filename \in assets, returned |-> returned, why |-> why]
    /\ assets' = as
    /\ snap' = Snapshot
    /\ UNCHANGED <<extra, found, val, names, script, episodes, processed, feedDoc, now, inputs,
                   pc, locals, looked, handed, stages, ticks>>

\* no local file, no client, no repository or no release: False at once
UploadCallRefused ==
    /\ pc = "upload_call"
    /\ \E filename \in AudioNames : UploadCallReturns(filename, assets, FALSE, "refused")

\* asset.delete_asset raises GithubException, which is passed over, and the
\* release refuses a second asset of the name: False
UploadCallDeleteFails ==
    /\ pc = "upload_call"
    /\ \E filename \in assets \cap AudioNames : UploadCallReturns(filename, assets, FALSE, "delete_failed")

\* the old asset is deleted and release.upload_asset raises GithubException: False
UploadCallFails ==
    /\ pc = "upload_call"
    /\ \E filename \in AudioNames :
          UploadCallReturns(filename, AfterDelete(assets, filename), FALSE, "upload_failed")

\* the old asset is deleted and the new one uploaded: True
UploadCallOk ==
    /\ pc = "upload_call"
    /\ \E filename \in AudioNames :
          UploadCallReturns(filename, AfterUpload(assets, filename), TRUE, "")

NextUpload == UploadCallRefused \/ UploadCallDeleteFails \/ UploadCallFails \/ UploadCallOk

SpecUpload == InitUpload /\ [][NextUpload]_vars

(***************************************************************************)
(* Properties.                                                             *)
(***************************************************************************)
Range(q) == {q[i] : i \in 1..Len(q)}

IdsOf(q) == {q[i].id : i \in 1..Len(q)}

\* the latest pub_date of a non-empty Episode Store
MaxPubDate(eps) ==
    CHOOSE d \in {eps[i].pub_date : i \in 1..Len(eps)} :
        \A i \in 1..Len(eps) : eps[i].pub_date <= d

HoursSinceLatest(eps, t) == t - MaxPubDate(eps)

\* the paper of that id is the first of the feed that get_papers_from_drive kept
FirstEligibleOfFeed(id) ==
    \E i \in 1..Len(feed) :
        /\ feed[i].id = id
        /\ id \in IdsOf(papers)
        /\ \A j \in 1..(i - 1) : feed[j].id \notin IdsOf(papers)

\* the ids whose Episode this run added, replaced or removed
ChangedEpisodeIds ==
    {e.id : e \in (Range(episodes) \ Range(snap.episodes))
                  \cup (Range(snap.episodes) \ Range(episodes))}

\* C1: a run hands at most one paper to process_paper, the first eligible one
\* in feed order; it changes at most one Episode and adds at most one id to
\* the ProcessedSet; the other eligible papers stay unprocessed; the summary
\* has processed + failed = 1 and queued = eligible - 1.
C1_OnePaperPerRun ==
    /\ Len(handed) <= 1
    /\ handed # <<>> => FirstEligibleOfFeed(handed[1])
    /\ Cardinality(ChangedEpisodeIds) <= 1
    /\ Cardinality(processed \ snap.processed) <= 1
    /\ processed \ snap.processed \subseteq Range(handed)
    /\ \A k \in 1..Len(papers) :
          (handed = <<>> \/ papers[k].id # handed[1]) => papers[k].id \notin processed
    /\ summary # NoSummary =>
          /\ summary.processed + summary.failed = 1
          /\ summary.queued = Len(papers) - 1

\* a finished run with two eligible papers, one of them handed over
C1_Witness ==
    /\ pc = "returned"
    /\ summary # NoSummary
    /\ Len(papers) = 2
    /\ Len(handed) = 1
    /\ summary.queued = 1

\* C2: when fewer than 24 hours have passed since the latest Episode at the
\* gate, the run returns without handing over a paper or entering a stage,
\* and the Episode Store, the ProcessedSet, the feed document and the
\* release assets are as they were when the run started.
C2_RateLimitedRunMutatesNothing ==
    (/\ pc \notin {"idle", "fetch", "gate", "crashed"}
     /\ papers # <<>>
     /\ snap.episodes # <<>>
     /\ HoursSinceLatest(snap.episodes, now) < 24)
    => (/\ pc = "returned"
        /\ handed = <<>>
        /\ stages = {}
        /\ summary = NoSummary
        /\ Snapshot = snap)

\* a run stopped by the gate, 23 hours after the latest Episode
C2_Witness ==
    /\ pc = "returned"
    /\ papers # <<>>
    /\ snap.episodes # <<>>
    /\ HoursSinceLatest(snap.episodes, now) = 23
    /\ ~gate.can

\* C3: can_publish_new_episode is true on an empty Episode Store; otherwise
\* it is true exactly when 24 hours or more have passed since the maximum
\* pub_date, and when false the remaining wait is 24 minus the hours passed
\* (23 hours: false, 1 hour left; 25 hours: true).
C3_CanPublish ==
    pc = "rated" =>
        /\ episodes = <<>> => gate.can
        /\ episodes # <<>> =>
              /\ gate.can <=> HoursSinceLatest(episodes, now) >= 24
              /\ ~gate.can => gate.remaining = 24 - HoursSinceLatest(episodes, now)
              /\ HoursSinceLatest(episodes, now) = 23 => ~gate.can /\ gate.remaining = 1
              /\ HoursSinceLatest(episodes, now) = 25 => gate.can

\* the gate refused 23 hours after the latest Episode, which is not the last
\* of the list
C3_Witness ==
    /\ pc = "rated"
    /\ Len(episodes) = 2
    /\ episodes[1].pub_date = now - 23
    /\ episodes[2].pub_date = now - 49
    /\ ~gate.can
    /\ gate.remaining = 1

\* the ways a stage of process_paper fails: no text extracted, no podcast
\* generated, the upload refused, failed or raising, and the exception of
\* the line after the podcast stage
StageFaults ==
    {"no_text", "no_podcast", "AttributeError", "upload_refused", "upload_failed",
     "ConnectionError"}

StripPrefix(id) == RemoveAll(id, Prefix)

C6_OneEpisodePerId ==
    /\ \A i, j \in 1..Len(episodes) : episodes[i].id = episodes[j].id => i = j
    /\ call.op = "add_episode" =>
          \E i \in 1..Len(episodes) :
              /\ episodes[i].id = call.id
              /\ episodes[i].pub_date = call.pub_date

\* add_episode was called for an id the Episode Store already held, next to
\* another Episode
C6_Witness ==
    /\ call.op = "add_episode"
    /\ call.had
    /\ Len(episodes) >= 2
    /\ call.pub_date = StartHour + MIN_HOURS_BETWEEN_EPISODES

\* C7: an id of the ProcessedSet stays in it after every later step;
\* save_processed_id leaves the set as its union with the id, so calling it
\* with an id already there changes nothing.
C7_ProcessedSetGrows ==
    [][/\ processed \subseteq processed'
       /\ (call'.op = "save_processed_id" /\ call' # call) =>
              /\ processed' = processed \cup {call'.id}
              /\ call'.had => processed' = processed]_vars

\* save_processed_id was called with an id already in a ProcessedSet of two
\* ids or more
C7_Witness ==
    /\ call.op = "save_processed_id"
    /\ call.had
    /\ Cardinality(processed) >= 2

\* C8: a paper whose id is in the ProcessedSet at the start of a run is not
\* matched against the folder, not handed to process_paper, goes through no
\* stage, and its Episode, if any, is left as it was.
C8_ProcessedPaperUntouched ==
    \A id \in snap.processed :
        /\ id \notin looked
        /\ id \notin Range(handed)
        /\ \A st \in stages : st[2] # id
        /\ {e \in Range(episodes) : e.id = id} = {e \in Range(snap.episodes) : e.id = id}

\* a run returned after skipping the processed first paper of the feed and
\* handing a later one to process_paper
C8_Witness ==
    /\ pc = "returned"
    /\ summary # NoSummary
    /\ Len(feed) >= 2
    /\ feed[1].id \in snap.processed
    /\ handed # <<>>
    /\ looked # {}

\* C9: a run over a feed of three unprocessed papers of which one has a
\* matching recent PDF, the stores consistent, the gate allowing and every
\* external call succeeding, returns with one Episode more, one id more in the
\* ProcessedSet, the other two papers unprocessed, and one entry more in
\* the feed document.
C9_EndToEnd ==
    (/\ pc = "returned"
     /\ summary # NoSummary
     /\ Len(feed) = 3
     /\ IdsOf(feed) \cap snap.processed = {}
     /\ IdsOf(feed) \cap IdsOf(snap.episodes) = {}
     /\ snap.feedDoc = RenderFeed(snap.episodes)
     /\ Len(papers) = 1
     /\ gate # NoGate
     /\ gate.can
     /\ fault \in {"", "AttributeError"}) =>
        /\ Len(episodes) = Len(snap.episodes) + 1
        /\ processed = snap.processed \cup {papers[1].id}
        /\ Cardinality(IdsOf(feed) \ processed) = 2
        /\ Len(feedDoc) = Len(snap.feedDoc) + 1

\* C10: a file find_pdf returns from its fuzzy pass has the normalized
\* title of the paper inside its normalized name.
C10_TitleMatchMandatory ==
    (pc = "matched" /\ found # <<>> /\ ExactMatch(cur, drive) = <<>>) =>
        IsSubstr(Normalize(cur.title), Normalize(RemoveAll(found[1].name, DotPdf)))

\* the file name the matcher is meant to find: surname of the first author,
\* the year when one is known, " - ", the title, ".pdf"
ExpectedName(paper) ==
    LET y1 == IF paper.date_published # <<>> THEN SearchYear(paper.date_published) ELSE <<>>
        year == IF y1 # <<>> THEN y1 ELSE SearchYear(paper.id)
    IN LastWordOf(paper.authors[1])
       \o (IF year # <<>> THEN <<" ">> \o year ELSE <<>>)
       \o <<" ", "-", " ">> \o paper.title \o DotPdf

\* C11: when the listing holds a file whose name is, up to letter case,
\* "<surname> <year> - <title>.pdf" (the year left out when unknown),
\* find_pdf returns the first such file, whatever the other files score.
C11_ExactNameWins ==
    (/\ pc = "matched"
     /\ cur.authors # <<>>
     /\ \E i \in 1..Len(drive) : LowerStr(drive[i].name) = LowerStr(ExpectedName(cur))) =>
        /\ found # <<>>
        /\ LowerStr(found[1].name) = LowerStr(ExpectedName(cur))
        /\ \E i \in 1..Len(drive) :
              /\ drive[i] = found[1]
              /\ \A j \in 1..(i - 1) :
                    LowerStr(drive[j].name) # LowerStr(ExpectedName(cur))

\* the expected name of a paper without a year, in another case, was
\* returned although a file of the same fuzzy score comes first
C11_Witness ==
    /\ pc = "matched"
    /\ cur = PaperD
    /\ Len(drive) = 2
    /\ drive[1].name = NameDL
    /\ drive[2].name = NameDLower
    /\ Score(cur, drive[1]) = Score(cur, drive[2])
    /\ found = <<drive[2]>>

\* C12: the file the fuzzy pass returns has the highest score of the
\* listing, and is the first of the listing with that score.
C12_FirstMaximumWins ==
    (pc = "matched" /\ found # <<>> /\ ExactMatch(cur, drive) = <<>>) =>
        \E i \in 1..Len(drive) :
            /\ drive[i] = found[1]
            /\ \A j \in 1..Len(drive) : Score(cur, drive[j]) <= Score(cur, drive[i])
            /\ \A j \in 1..(i - 1) : Score(cur, drive[j]) < Score(cur, drive[i])

\* two files share the highest score and the first of the listing was
\* returned
C12_Witness ==
    /\ pc = "matched"
    /\ ExactMatch(cur, drive) = <<>>
    /\ Len(drive) = 2
    /\ Score(cur, drive[1]) = Score(cur, drive[2])
    /\ Score(cur, drive[1]) >= MinScore
    /\ found = <<drive[1]>>

\* the papers of the feed, in feed order, that are not processed and whose
\* matching file was modified on the drive inside the window
EligibleByDrive ==
    SelectSeq(feed, LAMBDA p :
        /\ p.id \notin snap.processed
        /\ FindPdf(p, drive) # <<>>
        /\ StrGE(FindPdf(p, drive)[1].modified, CutoffStr(now)))

\* C13: get_papers_from_drive returns the papers of the feed, in feed
\* order, that are not in the ProcessedSet and whose matching file was
\* modified within the last 30 days; such a paper is always kept.  Stated
\* for listings without two files of one name.
C13_RecentMatchesKept ==
    (/\ pc \notin {"idle", "fetch", "crashed"}
     /\ \A i, j \in 1..Len(drive) : drive[i].name = drive[j].name => i = j) =>
        papers = EligibleByDrive

\* C14: when the model key, the drive credentials, the release token or
\* the repository name is not set, the run stops before any processing: no
\* feed is fetched and no file matched, no stage is entered, and no store
\* is written.
C14_MissingConfigAborts ==
    config # Keys =>
        /\ looked = {}
        /\ papers = <<>>
        /\ stages = {}
        /\ Snapshot = snap

\* C15: with every key set, a failure of an external call (the feed fetch,
\* the drive listing, the download, the model, the upload) does not end
\* the run with an exception: the paper is skipped and main() returns.
C15_FailuresNeverCrash ==
    config = Keys =>
        /\ pc # "crashed"
        /\ fault \in {"RequestException", "HttpError", "ConnectionError"} =>
              pc \in {"regen", "returned", "idle"}

\* the four data sources disagree: the stripped ids of the Episode Store are
\* not the stripped ids of the ProcessedSet, or not the ids of the assets,
\* or the feed document does not have one item per Episode
Inconsistent ==
    \/ {StripPrefix(episodes[i].id) : i \in 1..Len(episodes)}
          # {StripPrefix(id) : id \in processed}
    \/ {StripPrefix(episodes[i].id) : i \in 1..Len(episodes)}
          # {RemoveAll(a, Mp3) : a \in assets}
    \/ Len(feedDoc) # Cardinality({StripPrefix(episodes[i].id) : i \in 1..Len(episodes)})

\* C16: with no flag, with --fix and with --dry-run, the validator leaves
\* with 1 when one of its five checks finds something and with 0 when the
\* data sources agree (the release listing being answered).
C16_ExitCode ==
    (pc = "validated" /\ val.api_ok) =>
        /\ Inconsistent => val.exit = 1
        /\ ~Inconsistent => val.exit = 0

C18_DryRunAgreesWithRun ==
    (pc = "validated" /\ val.mode = "--dry-run" /\ val.feed_ok) =>
        LET eligible == GetPapersFromDriveResult(feed, processed, drive, now).papers IN
        /\ val.new_papers = eligible
        /\ val.will_process <=>
              (eligible # <<>> /\ CanPublishNewEpisode(episodes, now).can)

\* a file name without its ".mp3"
Stem(name) == SubSeq(name, 1, Len(name) - Len(Mp3))

\* C19: the audio file name of a paper id is the id without its prefix,
\* made of alphanumerics, '-' and '_' only, of at most 100 characters,
\* followed by ".mp3", and process_paper and
\* generate_audio_from_script_json derive the same name.
C19_OneSafeAssetName ==
    pc = "named" =>
        /\ names.main = names.audio_generator
        /\ \A n \in {names.main, names.audio_generator} :
              /\ SubSeq(n, Len(n) - Len(Mp3) + 1, Len(n)) = Mp3
              /\ Len(Stem(n)) <= MaxNameLen
              /\ \A i \in 1..Len(Stem(n)) : Stem(n)[i] # "bibtex:" /\ IsSafeChar(Stem(n)[i])
              /\ ~IsSubstr(<<"b", "i", "b", "t", "e", "x">>, Stem(n))

\* C20: what generate_script returns, when it returns a script, is a
\* mapping with a list of at least 4 turns under it, every turn with a
\* text and a speaker that are not empty and a speaker that is R or S; an
\* answer that is not so is not returned.
C20_ReturnedScriptIsValid ==
    (pc = "scripted" /\ script.outcome = "returned" /\ script.result.shape # "None") =>
        /\ script.result.shape = "script"
        /\ Len(script.result.turns) >= 4
        /\ \A i \in 1..Len(script.result.turns) :
              LET turn == script.result.turns[i] IN
              /\ "text" \in DOMAIN turn
              /\ "speaker" \in DOMAIN turn
              /\ turn.text # ""
              /\ turn.speaker \in {"R", "S"}

\* the calls of the model that gave no script
FailedCalls == {"None", "empty", "raised"}

\* C21: generate_script calls the model at most 3 times and ends: every
\* call before the last one failed, a script is returned from the call
\* that gave it, and after 3 failed calls the result is None when the last
\* answer did not parse and the exception when the last call raised.
C21_BoundedRetries ==
    /\ [](Len(script.calls) <= 3)
    /\ [](pc = "scripted" =>
            /\ \A i \in 1..(Len(script.calls) - 1) : script.calls[i] \in FailedCalls
            /\ script.result.shape # "None" =>
                  /\ script.outcome = "returned"
                  /\ script.calls[Len(script.calls)] = script.result.shape
            /\ script.result.shape = "None" =>
                  /\ Len(script.calls) = 3
                  /\ script.calls[3] = "raised" <=> script.outcome = "raised"
                  /\ script.calls[3] \in {"None", "empty"} <=> script.outcome = "returned")
    /\ (pc = "script" ~> pc = "scripted")

\* a script was returned by the third call, after a call that raised and an
\* answer that did not parse
C21_Witness ==
    /\ pc = "scripted"
    /\ script.calls = <<"raised", "None", "script">>
    /\ script.outcome = "returned"
    /\ script.result.shape = "script"

\* the 0-based place of the last paragraph boundary that lies whole within
\* the first max_chars characters of a text, -1 when there is none
LastBoundary(text, boundary, max_chars) ==
    LET upto == IF Len(text) < max_chars THEN Len(text) ELSE max_chars
        at == {i \in 0..(upto - Len(boundary)) :
                 SubSeq(text, i + 1, i + Len(boundary)) = boundary}
    IN IF at = {} THEN -1 ELSE CHOOSE i \in at : \A j \in at : j <= i

\* a text within the budget comes back unchanged; a longer one is cut at its
\* last paragraph boundary when that lies past 80% of the budget, at the
\* budget otherwise, and carries the marker
TruncatedAsSpecified(text, boundary, marker, max_chars, result) ==
    IF Len(text) <= max_chars THEN result = text
    ELSE LET b == LastBoundary(text, boundary, max_chars)
             keep == IF 5 * b > 4 * max_chars THEN b ELSE max_chars
         IN result = SubSeq(text, 1, keep) \o marker

\* pdf_extractor.truncate_text alone: the text is the pages joined by blank
\* lines, and the result is as specified
TruncateTextAsSpecified ==
    pc = "extracted" =>
        TruncatedAsSpecified(JoinPages(trunc.pages), ParaBreak, ContentMarker,
                             trunc.max_chars, trunc.truncate_text)

\* C22: wherever the program truncates extracted text, a text within the
\* budget is unchanged and a longer one is cut at its last paragraph boundary
\* past 80% of the budget (at the budget when there is none) and marked. In
\* get_pdf_text the text is the cleaned one, where one space stands for each
\* blank line between two pages.
C22_TruncateAtParagraph ==
    pc = "extracted" =>
        /\ TruncatedAsSpecified(JoinPages(trunc.pages), ParaBreak, ContentMarker,
                                trunc.max_chars, trunc.truncate_text)
        /\ TruncatedAsSpecified(CollapseWhitespace(JoinPages(trunc.pages)), <<" ">>,
                                TextMarker, trunc.max_chars, trunc.get_pdf_text)

C24_ListingMemoized ==
    \A i \in 2..Len(lists) :
        /\ ~lists[i].requested
        /\ lists[i].files = lists[1].files

\* C24 for the folders that hold a file and no two files of one name
ListingMemoizedForDistinctNames ==
    (drive # <<>> /\ \A i, j \in 1..Len(drive) : drive[i].name = drive[j].name => i = j) =>
        \A i \in 2..Len(lists) :
            ~lists[i].requested /\ lists[i].files = lists[1].files

C26_ValidatorGateAgrees ==
    pc = "queued" =>
        /\ val.queue.can_publish = gate.can
        /\ val.queue.hours_until_next = gate.remaining

\* C26 for the stores in which no two ids differ by the prefix alone
GateAgreesForDistinctKeys ==
    (pc = "queued" /\ Cardinality(EpisodeKeys(episodes)) = Len(episodes)) =>
        /\ val.queue.can_publish = gate.can
        /\ val.queue.hours_until_next = gate.remaining

BothPublished ==
    /\ \A r \in RaceRuns : race.run[r].ok /\ race.run[r].can
    /\ race.run[1].cur.id # race.run[2].cur.id

\* the Episodes of the two processes are both in the store, less than 24
\* hours apart
TwoEpisodesWithinADay ==
    \E i, j \in 1..Len(episodes) :
        /\ episodes[i].id = race.run[1].cur.id
        /\ episodes[j].id = race.run[2].cur.id
        /\ episodes[i].pub_date - episodes[j].pub_date < MIN_HOURS_BETWEEN_EPISODES
        /\ episodes[j].pub_date - episodes[i].pub_date < MIN_HOURS_BETWEEN_EPISODES

EpisodeDiscarded == \E r \in RaceRuns : race.run[r].cur.id \notin IdsOf(episodes)

ProcessedIdDiscarded == \E r \in RaceRuns : race.run[r].cur.id \notin processed

RaceEpisodeLost ==
    /\ BothPublished
    /\ EpisodeDiscarded
    /\ \A r \in RaceRuns : race.run[r].pc = "returned"

SharedAssetName ==
    /\ pc = "idle"
    /\ IdsOf(episodes) = {PaperA.id, PaperE.id}
    /\ processed = {PaperA.id, PaperE.id}
    /\ Len(feedDoc) = 2
    /\ assets = {AudioFilename(PaperA.id)}
    /\ HasIssues(episodes, processed, feedDoc, assets, TRUE)

\* C30: when upload_audio_to_release returns False the release holds the
\* assets it held before the call, the asset of every Episode among them;
\* when it returns True the release holds the asset of the uploaded name and
\* the other assets are as they were.
C30_FailedUploadChangesNothing ==
    call.op = "upload" =>
        /\ ~call.returned =>
              /\ assets = snap.assets
              /\ \A i \in 1..Len(episodes) :
                    episodes[i].audio \in snap.assets => episodes[i].audio \in assets
        /\ call.returned =>
              /\ call.id \in assets
              /\ assets \ {call.id} = snap.assets \ {call.id}

\* C30 for the calls that return True, and for those that return False on a
\* release without an asset of that name
UploadAsSpecifiedWithoutOldAsset ==
    (call.op = "upload" /\ (call.returned \/ ~call.had)) =>
        /\ ~call.returned => assets = snap.assets
        /\ call.returned =>
              /\ call.id \in assets
              /\ assets \ {call.id} = snap.assets \ {call.id}

====
